---- MODULE Spec2Model ----
(***************************************************************************)
(* Model of the DS1306 real-time-clock driver (src/ds1306.py).             *)
(*                                                                         *)
(* The driver talks to the device over an SPI bus.  Every bus transaction  *)
(* is bracketed by __prepare (lock, configure, chip-select up) and         *)
(* __finish (chip-select down, unlock).  The module holds                  *)
(*   - the byte arithmetic of the driver (BCD, bit masks, weekday),        *)
(*   - the device's register file as the bus sees it,                      *)
(*   - every public method as the list of bus transactions it performs,    *)
(*   - Spec: the driver stepping through those transactions one SPI call   *)
(*     at a time, where any spi.write / spi.readinto may raise,            *)
(*   - SpecUnit: whole method calls on inputs drawn over their full range. *)
(***************************************************************************)
EXTENDS Integers, Sequences, FiniteSets, TLC

VARIABLES
    regs,       \* device registers 0x00..0x11, as the bus reads them
    cs,         \* self.__cs.value
    spiLocked,  \* the SPI bus lock (try_lock / unlock)
    call,       \* the public method in progress or last run: [op, args]
    status,     \* "idle" | "running" | "done" | "fault" | "raised"
    prog,       \* bus transactions the method in progress still has to do
    phase,      \* position inside the current transaction
    val,        \* local: the byte a method computed from a read for __write
    prior,      \* local: `prior` of __writeOn / __writeOff
    raw,        \* bytes the method in progress has read for its return value
    frames,     \* every buffer handed to spi.write during the current method
    reads,      \* number of spi.readinto calls during the current method
    result,     \* what the last method returned
    nops,       \* number of public calls made so far
    regs0,      \* the registers when the current method was called
    spinning,   \* the driver is inside the `while not try_lock()` loop
    test,       \* SpecUnit: the input drawn for the run
    ticks,      \* number of seconds the device clock has counted
    snaps       \* the registers at each instant of the current call: as it
                \* was made, and after every clock tick since

vars == <<regs, cs, spiLocked, call, status, prog, phase, val, prior, raw,
          frames, reads, result, nops, regs0, spinning, test, ticks, snaps>>

(***************************************************************************)
(* Bounds of the model.                                                    *)
(***************************************************************************)
MaxOps == 2

(***************************************************************************)
(* Byte arithmetic.                                                        *)
(***************************************************************************)
RECURSIVE BitAnd(_, _)
BitAnd(x, y) ==
    IF x = 0 \/ y = 0 THEN 0
    ELSE (x % 2) * (y % 2) + 2 * BitAnd(x \div 2, y \div 2)

RECURSIVE BitOr(_, _)
BitOr(x, y) ==
    IF x = 0 THEN y
    ELSE IF y = 0 THEN x
    ELSE (IF x % 2 = 1 \/ y % 2 = 1 THEN 1 ELSE 0) + 2 * BitOr(x \div 2, y \div 2)

\* Python's x & m for x >= 0; a negative m is the inverted mask ~(-m-1).
PyAnd(x, m) == IF m >= 0 THEN BitAnd(x, m) ELSE x - BitAnd(x, (-m) - 1)

\* Python's (x >> i) & 1.
Bit(x, i) == (x \div (2 ^ i)) % 2

\* Python's int(a / b) for b > 0: true division, then truncation toward zero.
TruncDiv(a, b) == IF a >= 0 THEN a \div b ELSE -((-a) \div b)

\* bytearray([...]) raises ValueError unless every element is in range(256).
ByteArrayOK(buf) == \A i \in 1..Len(buf) : buf[i] \in 0..255

(***************************************************************************)
(* Python values a method returns: integers, and the strings bin() makes.  *)
(***************************************************************************)
PyInt(n) == [ty |-> "int", v |-> n]
PyStr(s) == [ty |-> "str", v |-> s]

RECURSIVE BinDigits(_)
BinDigits(n) ==
    IF n < 2 THEN << IF n = 1 THEN "1" ELSE "0" >>
    ELSE Append(BinDigits(n \div 2), IF n % 2 = 1 THEN "1" ELSE "0")

\* Python's bin(n) for n >= 0: the text "0b" followed by the binary digits.
bin(n) == PyStr(<<"0", "b">> \o BinDigits(n))

(***************************************************************************)
(* BCD codec.                                                              *)
(***************************************************************************)
bcdtodec(byte) == (BitAnd(byte \div 16, 7) * 10) + BitAnd(byte, 15)

dectobcd(num) ==
    LET un == TruncDiv(num, 10)
        ln == num - (un * 10)
    IN  (un * 16) + ln

(***************************************************************************)
(* Day of week, Sunday = 1 .. Saturday = 7.                                *)
(***************************************************************************)
MonthTable == <<0, 3, 2, 5, 0, 3, 5, 1, 4, 6, 2, 4>>

\* t[m-1] on a 12-tuple: Python accepts indices -12..11, a negative one
\* counting from the end, and raises IndexError outside.
DayIndexError(m) == (m - 1 > 11) \/ (m - 1 < -12)
TableAt(i) == IF i >= 0 THEN MonthTable[i + 1] ELSE MonthTable[i + 13]

\* Mutant: the year is not stepped back for January and February.
getDayFromDate_NoAdjust(y, m, d) ==
    ((y + TruncDiv(y, 4) - TruncDiv(y, 100) + TruncDiv(y, 400)
      + TableAt(m - 1) + d) % 7) + 1

getDayFromDate(y, m, d) ==
    LET y1 == y - (IF m < 3 THEN 1 ELSE 0)
    IN  ((y1 + TruncDiv(y1, 4) - TruncDiv(y1, 100) + TruncDiv(y1, 400)
          + TableAt(m - 1) + d) % 7) + 1

(***************************************************************************)
(* The device as the bus sees it: 18 registers, 0x00..0x11.  A buffer      *)
(* whose first byte has bit 7 set writes the following bytes to            *)
(* consecutive registers starting at (first byte - 0x80).  While the       *)
(* write-protect bit (bit 6 of control register 0x0F) is set the device    *)
(* accepts no write except to that bit; status register 0x10 is read-only. *)
(***************************************************************************)
Addrs == 0..17
ControlReg == 15
StatusReg == 16
ChargerReg == 17

WriteProtected(r) == Bit(r[ControlReg], 6) = 1

DevWriteReg(r, a, b) ==
    IF a = ControlReg
    THEN IF WriteProtected(r)
         THEN [r EXCEPT ![a] = (r[a] - 64) + 64 * Bit(b, 6)]
         ELSE [r EXCEPT ![a] = b]
    ELSE IF a \in Addrs /\ a # StatusReg /\ ~WriteProtected(r)
         THEN [r EXCEPT ![a] = b]
         ELSE r

RECURSIVE DevWriteFrom(_, _, _)
DevWriteFrom(r, a, bytes) ==
    IF bytes = <<>> THEN r
    ELSE DevWriteFrom(DevWriteReg(r, a, Head(bytes)), a + 1, Tail(bytes))

DevWrite(r, buf) ==
    IF buf = <<>> \/ Head(buf) < 128 THEN r
    ELSE DevWriteFrom(r, Head(buf) - 128, Tail(buf))

\* spi.readinto(bytearray(19)): the bus clocks out 0x00, which the device
\* takes as "read from address 0"; byte 0 of the buffer is filled while that
\* address goes out, bytes 1..18 are registers 0x00..0x11.
DevReadInto(r) == [i \in 1..19 |-> IF i = 1 THEN 0 ELSE r[i - 2]]

(***************************************************************************)
(* __read(loc): result[loc+1] of the 19-byte burst (0-based in the code).  *)
(***************************************************************************)
read(r, loc) == DevReadInto(r)[loc + 2]

(***************************************************************************)
(* A method is the list of bus transactions it performs, in order.         *)
(*   Rd(loc, dst, am, om): __read(loc); dst says where the byte goes:      *)
(*        "prior" -> prior, "raw" -> appended to the bytes kept for the    *)
(*        return value, "val" -> val = (byte & am) | om                    *)
(*   Wr(src, buf): spi.write of <<0x8f, prior & 0x04>> (src "on"),         *)
(*        <<0x8f, prior | 0x40>> (src "off"), <<buf[1], val>> (src "val")  *)
(*        or buf itself (src "buf")                                        *)
(***************************************************************************)
Rd(loc, dst, am, om) ==
    [k |-> "rd", loc |-> loc, dst |-> dst, am |-> am, om |-> om, buf |-> <<>>]
Wr(src, buf) ==
    [k |-> "wr", loc |-> 0, dst |-> src, am |-> 0, om |-> 0, buf |-> buf]

writeOn == << Rd(15, "prior", 0, 0), Wr("on", <<143>>) >>

\* Mutant: __writeOff is a copy of __writeOn (prior & 0x04 instead of | 0x40).
writeOff_CopyOfOn == << Rd(15, "prior", 0, 0), Wr("on", <<143>>) >>

writeOff == << Rd(15, "prior", 0, 0), Wr("off", <<143>>) >>

\* Mutant: __write forgets __writeOff.
write_NoRelock(loc) == writeOn \o << Wr("val", <<loc>>) >>

\* __write(loc, val) with val in the local of that name.
write(loc) == writeOn \o << Wr("val", <<loc>>) >> \o writeOff

writeBuf(buf) == writeOn \o << Wr("buf", buf) >> \o writeOff

\* The buffer an spi.write transaction hands to the bus.
Frame(i, st) ==
    CASE i.dst = "on"  -> <<i.buf[1], BitAnd(st.prior, 4)>>
      [] i.dst = "off" -> <<i.buf[1], BitOr(st.prior, 64)>>
      [] i.dst = "val" -> <<i.buf[1], st.val>>
      [] OTHER         -> i.buf

\* One transaction, from spi.write / spi.readinto to its effect on the
\* device and on the method's locals.
Transact(i, st) ==
    IF i.k = "rd"
    THEN LET b == read(st.regs, i.loc)
         IN  CASE i.dst = "prior" -> [st EXCEPT !.prior = b, !.reads = @ + 1]
               [] i.dst = "val"   -> [st EXCEPT !.val = BitOr(PyAnd(b, i.am), i.om),
                                                !.reads = @ + 1]
               [] OTHER           -> [st EXCEPT !.raw = Append(@, b), !.reads = @ + 1]
    ELSE LET f == Frame(i, st)
         IN  [st EXCEPT !.regs = DevWrite(@, f), !.frames = Append(@, f)]

RECURSIVE Exec(_, _)
Exec(p, st) == IF p = <<>> THEN st ELSE Exec(Tail(p), Transact(Head(p), st))

(***************************************************************************)
(* The public methods: the buffer or byte each one builds, whether         *)
(* building it raises, its transactions, and its return value.             *)
(***************************************************************************)
\* Mutant: minutes and seconds change places in the burst.
setTimeBuf_Swapped(h, m, s, th, ap) ==
    LET hh == IF th # 0
              THEN BitOr(BitOr(dectobcd(IF h <= 12 THEN h ELSE h - 12), 64),
                         32 * (ap % 2))
              ELSE dectobcd(h)
    IN  <<128, dectobcd(m), dectobcd(s), hh>>

setTimeBuf(h, m, s, th, ap) ==
    LET hh == IF th # 0
              THEN BitOr(BitOr(dectobcd(IF h <= 12 THEN h ELSE h - 12), 64),
                         32 * (ap % 2))
              ELSE dectobcd(h)
    IN  <<128, dectobcd(s), dectobcd(m), hh>>

setDateBuf(y, m, d) ==
    <<131, dectobcd(getDayFromDate(y, m, d)), dectobcd(d), dectobcd(m),
      dectobcd(y % 100)>>

setAlarmTimeBuf(a, h, m, s, w, fh, fm, fs, fw, th, ap) ==
    LET add == IF a = 0 THEN 135 ELSE 139
        hh  == IF th # 0
               THEN BitOr(BitOr(BitOr(dectobcd(IF h <= 12 THEN h ELSE h - 12), 64),
                                32 * (ap % 2)), 128 * fh)
               ELSE BitOr(dectobcd(h), 128 * fh)
    IN  <<add, BitOr(dectobcd(s), 128 * fs), BitOr(dectobcd(m), 128 * fm), hh,
          BitOr(dectobcd(w), 128 * fw)>>

\* Mutant: in 12-hour mode only the mode bit is masked off, the PM bit stays.
getTimeResult_KeepPM(r) ==
    LET h  == r[1]
        hh == IF Bit(h, 6) = 0
              THEN <<bcdtodec(h), 0, 0>>
              ELSE <<bcdtodec(PyAnd(h, -65)), 1, Bit(h, 5)>>
    IN  <<PyInt(hh[1]), PyInt(bcdtodec(r[2])), PyInt(bcdtodec(r[3])),
          PyInt(hh[2]), PyInt(hh[3])>>

\* getTime's return value from the bytes it read (hours, minutes, seconds).
getTimeResult(r) ==
    LET h  == r[1]
        hh == IF Bit(h, 6) = 0
              THEN <<bcdtodec(h), 0, 0>>
              ELSE <<bcdtodec(PyAnd(PyAnd(h, -33), -65)), 1, Bit(h, 5)>>
    IN  <<PyInt(hh[1]), PyInt(bcdtodec(r[2])), PyInt(bcdtodec(r[3])),
          PyInt(hh[2]), PyInt(hh[3])>>

\* getDate's return value from the bytes it read (year, month, day, weekday).
getDateResult(r) ==
    <<PyInt(bcdtodec(r[1])), PyInt(bcdtodec(r[2])), PyInt(bcdtodec(r[3])),
      PyInt(bcdtodec(r[4]))>>

\* getAlarmTime's return value from the bytes it read (h, m, s, w).
getAlarmTimeResult(r) ==
    <<bin(PyAnd(PyAnd(r[1], -129), -65)), bin(PyAnd(r[2], -129)),
      bin(PyAnd(r[3], -129)), bin(PyAnd(r[4], -129)),
      PyInt(Bit(r[1], 7)), PyInt(Bit(r[2], 7)), PyInt(Bit(r[3], 7)),
      PyInt(Bit(r[4], 7))>>

Call(op, args) == [op |-> op, args |-> args]
NoCall == Call("none", <<>>)

\* The method raises while it evaluates its arguments, before __writeBuf.
Raises(c) ==
    LET a == c.args
    IN  CASE c.op = "setTime" -> ~ByteArrayOK(setTimeBuf(a[1], a[2], a[3], a[4], a[5]))
          [] c.op = "setDate" ->
                DayIndexError(a[2]) \/ ~ByteArrayOK(setDateBuf(a[1], a[2], a[3]))
          [] c.op = "setAlarmTime" ->
                ~ByteArrayOK(setAlarmTimeBuf(a[1], a[2], a[3], a[4], a[5], a[6],
                                             a[7], a[8], a[9], a[10], a[11]))
          [] OTHER -> FALSE

setChargerStateProg(d, r) ==
    << IF d = 0 THEN Rd(17, "val", -9, 4) ELSE Rd(17, "val", -5, 8) >>
    \o write(145)
    \o << IF r = 0 THEN Rd(17, "val", -3, 1)
          ELSE IF r = 1 THEN Rd(17, "val", -2, 2)
          ELSE Rd(17, "val", -1, 3) >>
    \o write(145)

\* Mutant: enableAlarmInt writes its bit alone instead of or-ing it in.
enableAlarmIntProg_Overwrite(a) ==
    << Rd(15, "val", 0, IF a = 0 THEN 1 ELSE 2) >> \o write(143)

enableAlarmIntProg(a) ==
    << Rd(15, "val", -1, IF a = 0 THEN 1 ELSE 2) >> \o write(143)

disableAlarmIntProg(a) ==
    << Rd(15, "val", IF a = 0 THEN -2 ELSE -3, 0) >> \o write(143)

\* Mutant: enableCharger writes 0xA0 without the bits read from the register.
enableChargerProg_Overwrite == << Rd(17, "val", 0, 160) >> \o write(145)

enableChargerProg == << Rd(17, "val", -81, 160) >> \o write(145)

disableChargerProg == << Rd(17, "val", -161, 80) >> \o write(145)

Prog(c) ==
    LET a == c.args
    IN  CASE c.op = "setTime" -> writeBuf(setTimeBuf(a[1], a[2], a[3], a[4], a[5]))
          [] c.op = "getTime" ->
                << Rd(2, "raw", 0, 0), Rd(1, "raw", 0, 0), Rd(0, "raw", 0, 0) >>
          [] c.op = "setDate" -> writeBuf(setDateBuf(a[1], a[2], a[3]))
          [] c.op = "getDate" ->
                << Rd(6, "raw", 0, 0), Rd(5, "raw", 0, 0), Rd(4, "raw", 0, 0),
                   Rd(3, "raw", 0, 0) >>
          [] c.op = "setAlarmTime" ->
                writeBuf(setAlarmTimeBuf(a[1], a[2], a[3], a[4], a[5], a[6], a[7],
                                         a[8], a[9], a[10], a[11]))
          [] c.op = "getAlarmTime" ->
                << Rd(9 + 4 * a[1], "raw", 0, 0), Rd(8 + 4 * a[1], "raw", 0, 0),
                   Rd(7 + 4 * a[1], "raw", 0, 0), Rd(10 + 4 * a[1], "raw", 0, 0) >>
          [] c.op = "enableAlarmInt" -> enableAlarmIntProg(a[1])
          [] c.op = "disableAlarmInt" -> disableAlarmIntProg(a[1])
          [] c.op = "getAlarmStatus" -> << Rd(16, "raw", 0, 0) >>
          [] c.op = "setChargerState" -> setChargerStateProg(a[1], a[2])
          [] c.op = "enableCharger" -> enableChargerProg
          [] c.op = "disableCharger" -> disableChargerProg
          [] c.op = "enableHzPin" -> writeOn \o << Wr("buf", <<143, 4>>) >> \o writeOff
          [] c.op = "disableHzPin" -> writeOn \o << Wr("buf", <<143, 0>>) >> \o writeOff
          [] OTHER -> <<>>

Return(c, r) ==
    CASE c.op = "getTime" -> getTimeResult(r)
      [] c.op = "getDate" -> getDateResult(r)
      [] c.op = "getAlarmTime" -> getAlarmTimeResult(r)
      [] c.op = "getAlarmStatus" -> << PyInt(Bit(r[1], c.args[1])) >>
      [] OTHER -> <<>>

(***************************************************************************)
(* Spec: the driver one SPI call at a time.                                *)
(***************************************************************************)
\* The device after power-up, with control register c and status register f.
PowerUp(c, f) ==
    [a \in Addrs |-> IF a = ControlReg THEN c ELSE IF a = StatusReg THEN f ELSE 0]

\* The registers are battery-backed: the driver is constructed on a device
\* that holds what power-up or an earlier run left.  The write-protect bit is
\* undefined at power-up, the alarm interrupts and the 1 Hz pin may be
\* enabled (0x03, 0x47), alarm 1 may have fired, the charger may be set up.
InitRegs ==
    { [PowerUp(c, f) EXCEPT ![ChargerReg] = g] :
      c \in {0, 64, 3, 71}, f \in {0, 2}, g \in {0, 90} }

\* State after __init__: chip-select low, bus configured and unlocked.
InitDriver ==
    /\ cs = FALSE
    /\ spiLocked = FALSE
    /\ call = NoCall
    /\ status = "idle"
    /\ prog = <<>>
    /\ phase = "idle"
    /\ val = 0
    /\ prior = 0
    /\ raw = <<>>
    /\ frames = <<>>
    /\ reads = 0
    /\ result = <<>>
    /\ nops = 0
    /\ regs0 = regs
    /\ spinning = FALSE
    /\ ticks = 0
    /\ snaps = {regs}

Init ==
    /\ regs \in InitRegs
    /\ test = NoCall
    /\ InitDriver

\* Arguments the callers of the model pass.
SetTimeArgs ==
    { <<14, 30, 0, 0, 0>>, <<11, 59, 59, 1, 1>>, <<100, 0, 0, 0, 0>>,
      <<160, 0, 0, 0, 0>> }
SetDateArgs == { <<24, 2, 29>>, <<2000, 1, 1>>, <<24, 0, 15>>, <<24, 13, 15>> }
SetAlarmArgs ==
    { <<0, 7, 30, 0, 1, 1, 1, 1, 1, 0, 0>>, <<1, 23, 15, 45, 7, 0, 1, 0, 0, 1, 1>>,
      <<0, 7, 100, 0, 1, 0, 1, 0, 0, 0, 0>> }
AlarmSlots == {0, 1}
ChargerArgs == { <<d, r>> : d \in {0, 1}, r \in {0, 1, 2} }

\* A public method is entered: its arguments are evaluated (which may raise)
\* and its transactions are lined up.
Invoke(c) ==
    /\ status # "running"
    /\ nops < MaxOps
    /\ call' = c
    /\ nops' = nops + 1
    /\ regs0' = regs
    /\ val' = 0
    /\ prior' = 0
    /\ raw' = <<>>
    /\ frames' = <<>>
    /\ reads' = 0
    /\ result' = <<>>
    /\ IF Raises(c)
       THEN status' = "raised" /\ prog' = <<>> /\ phase' = "idle"
       ELSE status' = "running" /\ prog' = Prog(c) /\ phase' = "lock"
    /\ snaps' = {regs}
    /\ UNCHANGED <<regs, cs, spiLocked, spinning, test, ticks>>

setTime == \E a \in SetTimeArgs : Invoke(Call("setTime", a))
getTime == Invoke(Call("getTime", <<>>))
setDate == \E a \in SetDateArgs : Invoke(Call("setDate", a))
getDate == Invoke(Call("getDate", <<>>))
setAlarmTime == \E a \in SetAlarmArgs : Invoke(Call("setAlarmTime", a))
getAlarmTime == \E a \in AlarmSlots : Invoke(Call("getAlarmTime", <<a>>))
enableAlarmInt == \E a \in AlarmSlots : Invoke(Call("enableAlarmInt", <<a>>))
disableAlarmInt == \E a \in AlarmSlots : Invoke(Call("disableAlarmInt", <<a>>))
getAlarmStatus == \E a \in AlarmSlots : Invoke(Call("getAlarmStatus", <<a>>))
setChargerState == \E a \in ChargerArgs : Invoke(Call("setChargerState", a))
enableCharger == Invoke(Call("enableCharger", <<>>))
disableCharger == Invoke(Call("disableCharger", <<>>))
enableHzPin == Invoke(Call("enableHzPin", <<>>))
disableHzPin == Invoke(Call("disableHzPin", <<>>))

\* __lock: try_lock() succeeds when the bus is free ...
lock ==
    /\ status = "running" /\ phase = "lock" /\ ~spiLocked
    /\ spiLocked' = TRUE
    /\ phase' = "select"
    /\ UNCHANGED <<regs, cs, call, status, prog, val, prior, raw, frames, reads,
                   result, nops, regs0, spinning, test, ticks, snaps>>

\* ... and otherwise the driver stays in `while not try_lock(): pass`.
lockSpin ==
    /\ status = "running" /\ phase = "lock" /\ spiLocked
    /\ spinning' = TRUE
    /\ UNCHANGED <<regs, cs, spiLocked, call, status, prog, phase, val, prior, raw,
                   frames, reads, result, nops, regs0, test, ticks, snaps>>

\* __prepare after __lock: configure, then chip-select up.
prepare ==
    /\ status = "running" /\ phase = "select"
    /\ cs' = TRUE
    /\ phase' = "xfer"
    /\ UNCHANGED <<regs, spiLocked, call, status, prog, val, prior, raw, frames,
                   reads, result, nops, regs0, spinning, test, ticks, snaps>>

Locals == [regs |-> regs, val |-> val, prior |-> prior, raw |-> raw,
           frames |-> frames, reads |-> reads]

\* spi.write(buf) / spi.readinto(result) completes.
transfer ==
    /\ status = "running" /\ phase = "xfer"
    /\ \E st \in { Transact(Head(prog), Locals) } :
           /\ regs' = st.regs
           /\ val' = st.val
           /\ prior' = st.prior
           /\ raw' = st.raw
           /\ frames' = st.frames
           /\ reads' = st.reads
    /\ phase' = "deselect"
    /\ UNCHANGED <<cs, spiLocked, call, status, prog, result, nops, regs0,
                   spinning, test, ticks, snaps>>

\* spi.write / spi.readinto raises: no method catches, so the exception
\* leaves the public method at once; __finish and __writeOff are skipped.
transportFault ==
    /\ status = "running" /\ phase = "xfer"
    /\ status' = "fault"
    /\ prog' = <<>>
    /\ phase' = "idle"
    /\ UNCHANGED <<regs, cs, spiLocked, call, val, prior, raw, frames, reads,
                   result, nops, regs0, spinning, test, ticks, snaps>>

\* Mutant: __finish releases the bus with chip-select still up.
finish_KeepSelect ==
    /\ status = "running" /\ phase = "deselect"
    /\ cs' = cs
    /\ phase' = "unlock"
    /\ UNCHANGED <<regs, spiLocked, call, status, prog, val, prior, raw, frames,
                   reads, result, nops, regs0, spinning, test, ticks, snaps>>

\* __finish: chip-select down ...
finish ==
    /\ status = "running" /\ phase = "deselect"
    /\ cs' = FALSE
    /\ phase' = "unlock"
    /\ UNCHANGED <<regs, spiLocked, call, status, prog, val, prior, raw, frames,
                   reads, result, nops, regs0, spinning, test, ticks, snaps>>

\* ... then __unlock; the method goes on to its next transaction.
unlock ==
    /\ status = "running" /\ phase = "unlock"
    /\ spiLocked' = FALSE
    /\ prog' = Tail(prog)
    /\ phase' = IF Tail(prog) = <<>> THEN "return" ELSE "lock"
    /\ UNCHANGED <<regs, cs, call, status, val, prior, raw, frames, reads, result,
                   nops, regs0, spinning, test, ticks, snaps>>

\* The method returns to its caller.
return ==
    /\ status = "running" /\ phase = "return"
    /\ status' = "done"
    /\ result' = Return(call, raw)
    /\ phase' = "idle"
    /\ UNCHANGED <<regs, cs, spiLocked, call, prog, val, prior, raw, frames, reads,
                   nops, regs0, spinning, test, ticks, snaps>>

Next ==
    \/ setTime \/ getTime \/ setDate \/ getDate \/ setAlarmTime \/ getAlarmTime
    \/ enableAlarmInt \/ disableAlarmInt \/ getAlarmStatus
    \/ setChargerState \/ enableCharger \/ disableCharger
    \/ enableHzPin \/ disableHzPin
    \/ lock \/ lockSpin \/ prepare \/ transfer \/ transportFault \/ finish
    \/ unlock \/ return

Spec == Init /\ [][Next]_vars

\* Runs in which no spi.write / spi.readinto raises.  Nothing else holds the
\* bus, so try_lock never fails unless the driver itself left it locked.
NextFaultFree ==
    \/ setTime \/ getTime \/ setDate \/ getDate \/ setAlarmTime \/ getAlarmTime
    \/ enableAlarmInt \/ disableAlarmInt \/ getAlarmStatus
    \/ setChargerState \/ enableCharger \/ disableCharger
    \/ enableHzPin \/ disableHzPin
    \/ lock \/ prepare \/ transfer \/ finish \/ unlock \/ return

SpecFaultFree == Init /\ [][NextFaultFree]_vars

(***************************************************************************)
(* SpecUnit: one input is drawn, then whole methods run on it without      *)
(* interruption and without transport faults: the codec functions on their *)
(* own, and each setter followed by its getter.                            *)
(***************************************************************************)
IsLeap(y) == (y % 4 = 0 /\ y % 100 # 0) \/ y % 400 = 0

DaysInMonth(y, m) ==
    IF m = 2 THEN (IF IsLeap(y) THEN 29 ELSE 28)
    ELSE IF m \in {4, 6, 9, 11} THEN 30 ELSE 31

\* Every minute with second 0, and every second with minute 30.
TimePairs == { <<m, 0>> : m \in 0..59 } \cup { <<30, s>> : s \in 0..59 }
HourModes == { <<0, 0>>, <<0, 1>>, <<1, 0>>, <<1, 1>> }
AlarmFields == { <<30, 0, 1>>, <<59, 59, 7>>, <<0, 45, 4>> }
Flags == { <<fh, fm, fs, fw>> : fh \in {0, 1}, fm \in {0, 1}, fs \in {0, 1},
                                 fw \in {0, 1} }
\* Years of the century the chip's two-digit year stands for, given in full
\* or by their last two digits.
FullYears == 2000..2099
ShortYears == 0..99

\* The input of the run: a codec value, a date, or the arguments of a setter.
DrawTest ==
    \/ \E n \in 0..99 : test = Call("dectobcd", <<n>>)
    \/ \E y \in FullYears, m \in 1..12 :
          \E d \in 1..DaysInMonth(y, m) : test = Call("getDayFromDate", <<y, m, d>>)
    \/ \E h \in 0..23, p \in TimePairs, md \in HourModes :
          test = Call("setTime", <<h, p[1], p[2], md[1], md[2]>>)
    \/ \E y \in ShortYears \cup FullYears, m \in 1..12 :
          \E d \in 1..DaysInMonth(2000 + (y % 100), m) :
             test = Call("setDate", <<y, m, d>>)
    \/ \E a \in AlarmSlots, h \in 0..23, x \in AlarmFields, f \in Flags,
          md \in HourModes :
          test = Call("setAlarmTime",
                      <<a, h, x[1], x[2], x[3], f[1], f[2], f[3], f[4], md[1], md[2]>>)

InitUnit ==
    /\ DrawTest
    /\ regs \in IF test.op \in {"dectobcd", "getDayFromDate", "setDate"}
                THEN { PowerUp(64, 0) }
                ELSE { PowerUp(64, 0), PowerUp(4, 0) }
    /\ InitDriver

\* A whole public method, from call to return, with no transport fault.
RunMethod(c) ==
    /\ call' = c
    /\ nops' = nops + 1
    /\ regs0' = regs
    /\ prog' = <<>>
    /\ phase' = "idle"
    /\ IF Raises(c)
       THEN /\ status' = "raised"
            /\ result' = <<>>
            /\ val' = 0 /\ prior' = 0 /\ raw' = <<>> /\ frames' = <<>> /\ reads' = 0
            /\ UNCHANGED regs
       ELSE \E st \in { Exec(Prog(c), [regs |-> regs, val |-> 0, prior |-> 0,
                                        raw |-> <<>>, frames |-> <<>>, reads |-> 0]) } :
                /\ status' = "done"
                /\ regs' = st.regs
                /\ val' = st.val
                /\ prior' = st.prior
                /\ raw' = st.raw
                /\ frames' = st.frames
                /\ reads' = st.reads
                /\ result' = Return(c, st.raw)
    /\ snaps' = {regs}
    /\ UNCHANGED <<cs, spiLocked, spinning, test, ticks>>

\* A codec function applied to value x.
RunPure(c, x) ==
    /\ call' = c
    /\ nops' = nops + 1
    /\ status' = "done"
    /\ result' = << PyInt(x) >>
    /\ UNCHANGED <<regs, cs, spiLocked, prog, phase, val, prior, raw, frames, reads,
                   regs0, spinning, test, ticks, snaps>>

Unit_dectobcd ==
    /\ test.op = "dectobcd" /\ nops = 0
    /\ RunPure(test, dectobcd(test.args[1]))

Unit_bcdtodec ==
    /\ test.op = "dectobcd" /\ nops = 1
    /\ RunPure(Call("bcdtodec", <<result[1].v>>), bcdtodec(result[1].v))

Unit_getDayFromDate ==
    /\ test.op = "getDayFromDate" /\ nops = 0
    /\ RunPure(test, getDayFromDate(test.args[1], test.args[2], test.args[3]))

Unit_setTime == test.op = "setTime" /\ nops = 0 /\ RunMethod(test)
Unit_getTime == test.op = "setTime" /\ nops = 1 /\ RunMethod(Call("getTime", <<>>))
Unit_setDate == test.op = "setDate" /\ nops = 0 /\ RunMethod(test)
Unit_getDate == test.op = "setDate" /\ nops = 1 /\ RunMethod(Call("getDate", <<>>))
Unit_setAlarmTime == test.op = "setAlarmTime" /\ nops = 0 /\ RunMethod(test)
Unit_getAlarmTime ==
    /\ test.op = "setAlarmTime" /\ nops = 1
    /\ RunMethod(Call("getAlarmTime", <<test.args[1]>>))

NextUnit ==
    \/ Unit_dectobcd \/ Unit_bcdtodec \/ Unit_getDayFromDate
    \/ Unit_setTime \/ Unit_getTime \/ Unit_setDate \/ Unit_getDate
    \/ Unit_setAlarmTime \/ Unit_getAlarmTime

SpecUnit == InitUnit /\ [][NextUnit]_vars

(***************************************************************************)
(* Reference definitions the claims are stated with.                       *)
(***************************************************************************)
\* The Gregorian calendar, counted in days from Saturday 2000-01-01.
RECURSIVE DaysBeforeMonth(_, _)
DaysBeforeMonth(y, m) ==
    IF m = 1 THEN 0 ELSE DaysBeforeMonth(y, m - 1) + DaysInMonth(y, m - 1)

DayNumber(y, m, d) ==
    365 * (y - 2000) + Cardinality({ k \in 2000..(y - 1) : IsLeap(k) })
    + DaysBeforeMonth(y, m) + (d - 1)

\* Sunday = 1 .. Saturday = 7, for 2000 <= y.
Weekday(y, m, d) == ((6 + DayNumber(y, m, d)) % 7) + 1

\* Packed BCD of n in 0..99: tens digit in the high nibble.
Packed(n) == 16 * (n \div 10) + (n % 10)

WriteOps ==
    { "setTime", "setDate", "setAlarmTime", "enableAlarmInt", "disableAlarmInt",
      "setChargerState", "enableCharger", "disableCharger", "enableHzPin",
      "disableHzPin" }

Ended == status \in {"done", "fault"}

(***************************************************************************)
(* SpecClock: getTime and getDate one SPI call at a time while the device  *)
(* counts seconds.  The device copies its registers into the 19 bytes of a *)
(* burst read when the transfer takes place; between two transfers of one  *)
(* method the clock may advance.                                           *)
(***************************************************************************)
MaxTicks == 2

FromBcd(byte) == 10 * (byte \div 16) + (byte % 16)

\* The hours register: 24-hour BCD, or bit 6 set, bit 5 = PM, hour 1..12.
HourByte(h, th, pm) == IF th = 0 THEN Packed(h) ELSE Packed(h) + 64 + 32 * pm

LastHour(byte) ==
    IF Bit(byte, 6) = 0 THEN FromBcd(byte) = 23
    ELSE FromBcd(byte % 32) = 11 /\ Bit(byte, 5) = 1

NextHour(byte) ==
    IF Bit(byte, 6) = 0
    THEN (IF FromBcd(byte) = 23 THEN 0 ELSE Packed(FromBcd(byte) + 1))
    ELSE LET h == FromBcd(byte % 32)
             pm == Bit(byte, 5)
         IN  IF h = 11 THEN HourByte(12, 1, 1 - pm)
             ELSE IF h = 12 THEN HourByte(1, 1, pm)
             ELSE HourByte(h + 1, 1, pm)

\* The date registers 0x03..0x06 one day later.
NextDay(r) ==
    LET d == FromBcd(r[4])
        m == FromBcd(r[5])
        y == FromBcd(r[6])
    IN  IF d < DaysInMonth(2000 + y, m)
        THEN [r EXCEPT ![3] = (r[3] % 7) + 1, ![4] = Packed(d + 1)]
        ELSE IF m < 12
        THEN [r EXCEPT ![3] = (r[3] % 7) + 1, ![4] = 1, ![5] = Packed(m + 1)]
        ELSE [r EXCEPT ![3] = (r[3] % 7) + 1, ![4] = 1, ![5] = 1,
                       ![6] = Packed((y + 1) % 100)]

\* The registers one second later (the alarm comparison is left out: the
\* status register is not read by getTime or getDate).
Ticked(r) ==
    IF FromBcd(r[0]) < 59 THEN [r EXCEPT ![0] = Packed(FromBcd(r[0]) + 1)]
    ELSE IF FromBcd(r[1]) < 59
    THEN [r EXCEPT ![0] = 0, ![1] = Packed(FromBcd(r[1]) + 1)]
    ELSE IF ~LastHour(r[2])
    THEN [r EXCEPT ![0] = 0, ![1] = 0, ![2] = NextHour(r[2])]
    ELSE NextDay([r EXCEPT ![0] = 0, ![1] = 0, ![2] = NextHour(r[2])])

\* A locked device showing the given time and date.
ClockAt(hb, m, s, w, d, mo, y) ==
    [a \in Addrs |->
        CASE a = 0 -> Packed(s)
          [] a = 1 -> Packed(m)
          [] a = 2 -> hb
          [] a = 3 -> w
          [] a = 4 -> Packed(d)
          [] a = 5 -> Packed(mo)
          [] a = 6 -> Packed(y)
          [] a = ControlReg -> 64
          [] OTHER -> 0]

\* Devices a second or two before a minute, an hour, a day, a month and a
\* year roll over, and one in the middle of a minute.
ClockRegs ==
    { ClockAt(HourByte(10, 0, 0), 59, 59, 7, 15, 6, 24),
      ClockAt(HourByte(10, 0, 0), 30, 58, 7, 15, 6, 24),
      ClockAt(HourByte(10, 0, 0), 30, 20, 7, 15, 6, 24),
      ClockAt(HourByte(23, 0, 0), 59, 59, 3, 31, 12, 24),
      ClockAt(HourByte(11, 1, 1), 59, 58, 4, 29, 2, 24),
      ClockAt(HourByte(12, 1, 0), 59, 59, 1, 30, 4, 23) }

InitClock ==
    /\ regs \in ClockRegs
    /\ test = NoCall
    /\ InitDriver

\* The device counts one second.
tick ==
    /\ ticks < MaxTicks
    /\ regs' = Ticked(regs)
    /\ ticks' = ticks + 1
    /\ snaps' = snaps \cup {Ticked(regs)}
    /\ UNCHANGED <<cs, spiLocked, call, status, prog, phase, val, prior, raw,
                   frames, reads, result, nops, regs0, spinning, test>>

NextClock ==
    \/ getTime \/ getDate
    \/ lock \/ prepare \/ transfer \/ finish \/ unlock \/ return
    \/ tick

SpecClock == InitClock /\ [][NextClock]_vars

(***************************************************************************)
(* C1: after a public write operation ends, by returning or by a transport *)
(* fault raised inside it, the write-protect bit of control register 0x0F  *)
(* is set.  Stated for the case most favourable to the claim: the device   *)
(* was locked when the operation was called.                               *)
(***************************************************************************)
C1_LockedAfterWrite ==
    (Ended /\ call.op \in WriteOps /\ WriteProtected(regs0)) => WriteProtected(regs)

(***************************************************************************)
(* C2: when an operation ends, by returning or by a transport fault,       *)
(* chip-select is low and the bus lock is free, so no later operation      *)
(* is left waiting in __lock.                                              *)
(***************************************************************************)
C2_BusReleasedOnExit ==
    /\ Ended => (~cs /\ ~spiLocked)
    /\ ~spinning

(***************************************************************************)
(* C3: bcdtodec(dectobcd(n)) = n for every n in 0..99.                     *)
(***************************************************************************)
C3_BcdRoundTrip ==
    (test.op = "dectobcd" /\ nops = 2) => result[1].v = test.args[1]

(***************************************************************************)
(* C4: setTime then getTime gives back the hour, the mode flag and the PM  *)
(* flag: for h in 1..12 in 12-hour mode with either PM value, and for h in *)
(* 0..23 in 24-hour mode (flags 0, 0).                                     *)
(***************************************************************************)
C4_HourRoundTrip ==
    LET a == test.args
    IN  (test.op = "setTime" /\ nops = 2 /\ (a[4] = 0 \/ a[1] \in 1..12)) =>
            /\ status = "done"
            /\ result[1] = PyInt(a[1])
            /\ result[4] = PyInt(a[4])
            /\ result[5] = PyInt(IF a[4] = 1 THEN a[5] ELSE 0)

C4_Witness ==
    /\ test = Call("setTime", <<12, 30, 0, 1, 1>>)
    /\ nops = 2
    /\ call.op = "getTime"
    /\ result[1] = PyInt(12) /\ result[4] = PyInt(1) /\ result[5] = PyInt(1)

(***************************************************************************)
(* C5: setAlarmTime then getAlarmTime of the same slot gives, for every    *)
(* field written with its match flag set, match flag 1 and the integer     *)
(* that was passed in (hours within the range of the hour mode).           *)
(***************************************************************************)
C5_AlarmFieldBack(i, flag, x) ==
    flag = 1 => (result[4 + i] = PyInt(1) /\ result[i].ty = "int" /\ result[i].v = x)

C5_AlarmRoundTrip ==
    LET a == test.args
    IN  (test.op = "setAlarmTime" /\ nops = 2) =>
            /\ (a[10] = 0 \/ a[2] \in 1..12) => C5_AlarmFieldBack(1, a[6], a[2])
            /\ C5_AlarmFieldBack(2, a[7], a[3])
            /\ C5_AlarmFieldBack(3, a[8], a[4])
            /\ C5_AlarmFieldBack(4, a[9], a[5])

(***************************************************************************)
(* C6: setDate(y, m, d), with y in 0..99 or in 2000..2099, writes one      *)
(* burst at register 0x03 holding weekday, day, month, year, the weekday   *)
(* being the Gregorian day of week of (2000 + y mod 100, m, d).            *)
(***************************************************************************)
C6_WeekdayDerived ==
    LET a == test.args
    IN  (test.op = "setDate" /\ nops = 1) =>
            /\ Len(frames) = 3
            /\ frames[2] = <<131, Weekday(2000 + (a[1] % 100), a[2], a[3]),
                             Packed(a[3]), Packed(a[2]), Packed(a[1] % 100)>>

(***************************************************************************)
(* C7: for every date of 2000..2099 getDayFromDate returns the Gregorian   *)
(* day of week, Sunday = 1 .. Saturday = 7; 2024-01-01 gives 2 and         *)
(* 2000-01-01 gives 7.                                                     *)
(***************************************************************************)
C7_DayOfWeek ==
    LET a == test.args
    IN  (test.op = "getDayFromDate" /\ nops = 1) =>
            /\ result[1] = PyInt(Weekday(a[1], a[2], a[3]))
            /\ a = <<2024, 1, 1>> => result[1] = PyInt(2)
            /\ a = <<2000, 1, 1>> => result[1] = PyInt(7)

\* Thursday 2024-02-29.
C7_Witness ==
    /\ test = Call("getDayFromDate", <<2024, 2, 29>>)
    /\ nops = 1
    /\ result = << PyInt(5) >>

(***************************************************************************)
(* C8: setTime(h, m, s) in 24-hour mode hands the bus exactly three        *)
(* buffers: <<0x8F, c>> with bit 6 of c clear, <<0x80, BCD s, BCD m,       *)
(* BCD h>>, and <<0x8F, c'>> with bit 6 of c' set; (14, 30, 0) gives       *)
(* <<0x80, 0x00, 0x30, 0x14>>.                                             *)
(***************************************************************************)
C8_SetTimeFrames ==
    LET a == test.args
    IN  (test.op = "setTime" /\ nops = 1 /\ a[4] = 0) =>
            /\ Len(frames) = 3
            /\ Len(frames[1]) = 2 /\ frames[1][1] = 143 /\ Bit(frames[1][2], 6) = 0
            /\ frames[2] = <<128, Packed(a[3]), Packed(a[2]), Packed(a[1])>>
            /\ Len(frames[3]) = 2 /\ frames[3][1] = 143 /\ Bit(frames[3][2], 6) = 1
            /\ (a[1] = 14 /\ a[2] = 30 /\ a[3] = 0) => frames[2] = <<128, 0, 48, 20>>

C8_Witness ==
    /\ test = Call("setTime", <<14, 30, 0, 0, 0>>)
    /\ nops = 1
    /\ status = "done"
    /\ frames = << <<143, 0>>, <<128, 0, 48, 20>>, <<143, 64>> >>

(***************************************************************************)
(* C9: setChargerState with no diode (d = 0) and a resistor (r # 0) is     *)
(* refused: it never hands a buffer to spi.write, never changes a device   *)
(* register and never returns normally.                                    *)
(***************************************************************************)
C9_ChargerRejected ==
    (call.op = "setChargerState" /\ call.args[1] = 0 /\ call.args[2] # 0) =>
        (frames = <<>> /\ regs = regs0 /\ status # "done")

(***************************************************************************)
(* C10: setDate with a month outside 1..12, and setTime / setDate /        *)
(* setAlarmTime with a field of 100 or more, are refused before any bus    *)
(* transaction: no read, no write, no register change, no normal return.   *)
(***************************************************************************)
C10_OutOfRange(c) ==
    LET a == c.args
    IN  \/ c.op = "setDate" /\ (a[2] \notin 1..12 \/ a[2] >= 100 \/ a[3] >= 100)
        \/ c.op = "setTime" /\ \E i \in 1..3 : a[i] >= 100
        \/ c.op = "setAlarmTime" /\ \E i \in 2..5 : a[i] >= 100

C10_InvalidRejected ==
    C10_OutOfRange(call) =>
        (reads = 0 /\ frames = <<>> /\ regs = regs0 /\ status # "done")

(***************************************************************************)
(* C11: a public write operation repeated with the same arguments leaves   *)
(* every device register as the first call left it (no transport fault,    *)
(* clock not advancing).                                                   *)
(***************************************************************************)
\* The registers after method c runs once more, whole, on registers r.
RegsAfter(c, r) ==
    Exec(Prog(c), [regs |-> r, val |-> 0, prior |-> 0, raw |-> <<>>,
                   frames |-> <<>>, reads |-> 0]).regs

C11_Idempotent ==
    (status = "done" /\ call.op \in WriteOps) => RegsAfter(call, regs) = regs

C11_Witness ==
    /\ status = "done"
    /\ call = Call("setChargerState", <<1, 2>>)
    /\ regs0[ControlReg] = 3
    /\ regs # regs0
    /\ RegsAfter(call, regs) = regs

(***************************************************************************)
(* C12: every data buffer of a write operation goes out while the          *)
(* write-protect bit is clear, right after an unlock buffer <<0x8F, c>>    *)
(* (bit 6 of c clear) and right before a lock buffer <<0x8F, c'>> (bit 6   *)
(* set); the device is locked when the operation returns; setChargerState  *)
(* does this twice, the diode byte first, the resistor byte second.        *)
(***************************************************************************)
IsUnlockFrame(f) == Len(f) = 2 /\ f[1] = 143 /\ Bit(f[2], 6) = 0
IsLockFrame(f) == Len(f) = 2 /\ f[1] = 143 /\ Bit(f[2], 6) = 1
IsDataWrite(i) == i.k = "wr" /\ i.dst \in {"val", "buf"}

C12_WriteGating ==
    /\ (status = "running" /\ phase = "xfer" /\ IsDataWrite(Head(prog))) =>
          /\ ~WriteProtected(regs)
          /\ frames # <<>> /\ IsUnlockFrame(frames[Len(frames)])
    /\ (status = "done" /\ call.op \in WriteOps) =>
          /\ WriteProtected(regs)
          /\ Len(frames) = (IF call.op = "setChargerState" THEN 6 ELSE 3)
          /\ \A k \in 1..Len(frames) :
                /\ k % 3 = 1 => IsUnlockFrame(frames[k])
                /\ k % 3 = 0 => IsLockFrame(frames[k])
          /\ call.op = "setChargerState" =>
                /\ Len(frames[2]) = 2 /\ frames[2][1] = 145
                /\ (frames[2][2] \div 4) % 4 = (IF call.args[1] = 0 THEN 1 ELSE 2)
                /\ Len(frames[5]) = 2 /\ frames[5][1] = 145
                /\ frames[5][2] % 4 = (IF call.args[2] = 0 THEN 1
                                       ELSE IF call.args[2] = 1 THEN 2 ELSE 3)

C12_Witness ==
    /\ status = "done"
    /\ call = Call("setChargerState", <<0, 2>>)
    /\ frames = << <<143, 0>>, <<145, 4>>, <<143, 64>>,
                   <<143, 0>>, <<145, 7>>, <<143, 64>> >>

(***************************************************************************)
(* C13: the operations that do not target the control register (setTime,   *)
(* setDate, setAlarmTime, setChargerState, enableCharger, disableCharger)  *)
(* return with bits 0, 1 (alarm interrupt enables) and 2 (1 Hz pin) of     *)
(* control register 0x0F as they were when the operation was called.       *)
(***************************************************************************)
C13_ControlBitsKept ==
    (status = "done"
     /\ call.op \in {"setTime", "setDate", "setAlarmTime", "setChargerState",
                     "enableCharger", "disableCharger"}) =>
        regs[ControlReg] % 8 = regs0[ControlReg] % 8

(***************************************************************************)
(* C14: enableAlarmInt(a) returns with bit a of control register 0x0F set, *)
(* disableAlarmInt(a) with it clear; both leave the other alarm-enable bit *)
(* and the 1 Hz bit as they were and the write-protect bit set.            *)
(* getAlarmStatus(a) returns bit a of status register 0x10 and writes      *)
(* nothing.                                                                *)
(***************************************************************************)
C14_AlarmInt ==
    LET a == call.args[1]
        c == regs[ControlReg]
        c0 == regs0[ControlReg]
    IN  /\ (status = "done" /\ call.op \in {"enableAlarmInt", "disableAlarmInt"}) =>
              /\ Bit(c, a) = (IF call.op = "enableAlarmInt" THEN 1 ELSE 0)
              /\ Bit(c, 1 - a) = Bit(c0, 1 - a)
              /\ Bit(c, 2) = Bit(c0, 2)
              /\ WriteProtected(regs)
        /\ (status = "done" /\ call.op = "getAlarmStatus") =>
              /\ result = << PyInt(Bit(regs[StatusReg], a)) >>
              /\ frames = <<>>
              /\ regs = regs0

\* Alarm 0 is enabled on a device that had alarm 1 and the 1 Hz pin enabled.
C14_Witness ==
    /\ status = "done"
    /\ call = Call("enableAlarmInt", <<0>>)
    /\ regs0[ControlReg] = 70
    /\ regs[ControlReg] = 71

(***************************************************************************)
(* C15: enableCharger and disableCharger set bits 4-7 of trickle-charger   *)
(* register 0x11 to 1010 and 0101 and leave bits 0-3; setChargerState      *)
(* changes bits 0-3 only (diode bits 2-3, resistor bits 0-1), and the      *)
(* diode bits of its first write are still there after its second.         *)
(***************************************************************************)
C15_ChargerBits ==
    LET g == regs[ChargerReg]
        g0 == regs0[ChargerReg]
    IN  /\ (status = "done" /\ call.op = "enableCharger") =>
              (g \div 16 = 10 /\ g % 16 = g0 % 16)
        /\ (status = "done" /\ call.op = "disableCharger") =>
              (g \div 16 = 5 /\ g % 16 = g0 % 16)
        /\ (status = "done" /\ call.op = "setChargerState") =>
              /\ g \div 16 = g0 \div 16
              /\ (g \div 4) % 4 = (frames[2][2] \div 4) % 4
              /\ (g \div 4) % 4 = (IF call.args[1] = 0 THEN 1 ELSE 2)
              /\ g % 4 = (IF call.args[2] = 0 THEN 1
                          ELSE IF call.args[2] = 1 THEN 2 ELSE 3)

\* The charger is enabled on a device whose register held 0x5A.
C15_Witness ==
    /\ status = "done"
    /\ call = Call("enableCharger", <<>>)
    /\ regs0[ChargerReg] = 90
    /\ regs[ChargerReg] = 170

(***************************************************************************)
(* C16: after setTime or setAlarmTime with th = 1 and an hour in 0..23,    *)
(* the hours register written has bit 6 set, bit 5 equal to ap mod 2 and,  *)
(* in bits 0-4, a BCD hour in 1..12 (h - 12 for the hours above 12).       *)
(***************************************************************************)
HourDigits(byte) == 10 * ((byte % 32) \div 16) + (byte % 16)

TwelveHourByte(byte, h, ap) ==
    /\ Bit(byte, 6) = 1
    /\ Bit(byte, 5) = ap % 2
    /\ HourDigits(byte) \in 1..12
    /\ h > 12 => HourDigits(byte) = h - 12

C16_TwelveHourRange ==
    LET a == test.args
    IN  /\ (test.op = "setTime" /\ nops = 1 /\ a[4] = 1) =>
              (status = "done" /\ TwelveHourByte(regs[2], a[1], a[5]))
        /\ (test.op = "setAlarmTime" /\ nops = 1 /\ a[10] = 1) =>
              (status = "done"
               /\ TwelveHourByte(regs[IF a[1] = 0 THEN 9 ELSE 13], a[2], a[11]))

(***************************************************************************)
(* C17: in runs without transport faults a transfer (spi.write or          *)
(* spi.readinto) takes place only with the bus lock held and chip-select   *)
(* up; chip-select is up only inside the lock (raised after try_lock,      *)
(* lowered before unlock); and when no public method is in progress, right *)
(* after construction included, chip-select is down and the lock is free.  *)
(***************************************************************************)
C17_BusBracketing ==
    /\ (status = "running" /\ phase = "xfer") => (cs /\ spiLocked)
    /\ cs => spiLocked
    /\ (status = "running" /\ phase = "lock") => (~cs /\ ~spiLocked)
    /\ status # "running" => (~cs /\ ~spiLocked)

\* The data transfer of a write is about to take place, after the unlock
\* transaction has been bracketed and closed.
C17_Witness ==
    /\ status = "running" /\ phase = "xfer"
    /\ call.op = "setDate"
    /\ Len(frames) = 1
    /\ cs /\ spiLocked

(***************************************************************************)
(* C18: with the device clock running, the hours, minutes and seconds that *)
(* getTime returns are the contents of registers 0x02, 0x01, 0x00 at one   *)
(* instant between the call and the return, and the four values of getDate *)
(* are the contents of registers 0x06, 0x05, 0x04, 0x03 at one instant.    *)
(* snaps holds the register contents at every instant since the call.      *)
(***************************************************************************)
C18_SnapshotConsistent ==
    /\ (status = "done" /\ call.op = "getTime") =>
          \E r \in snaps : result = getTimeResult(<<r[2], r[1], r[0]>>)
    /\ (status = "done" /\ call.op = "getDate") =>
          \E r \in snaps : result = getDateResult(<<r[6], r[5], r[4], r[3]>>)

(***************************************************************************)
(* C19: for every date of 2000..2099, setDate(y, m, d) followed by         *)
(* getDate(), with no write in between and the clock standing still,       *)
(* returns (y mod 100, m, d, getDayFromDate(y, m, d)).                     *)
(***************************************************************************)
C19_DateRoundTrip ==
    LET a == test.args
    IN  (test.op = "setDate" /\ a[1] \in FullYears /\ nops = 2) =>
            /\ status = "done"
            /\ result = << PyInt(a[1] % 100), PyInt(a[2]), PyInt(a[3]),
                           PyInt(getDayFromDate(a[1], a[2], a[3])) >>

====
